---- MODULE Spec2Model ----
(***************************************************************************)
(* A model of src/quicktype-core/input/Inputs.ts: the InputData registry,  *)
(* JSONSchemaInput (the schema processor, with InputJSONSchemaStore) and   *)
(* JSONInput (the sample processor).                                       *)
(*                                                                         *)
(* Several specifications share the module:                                *)
(*   SpecInputData       InputData over abstract Input<T> implementations  *)
(*   SpecInputDataVisit  InputData.finishAddingInputs and addTypes         *)
(*   SpecSchemaSources   one JSONSchemaInput taking sources                *)
(*   SpecSchema          one JSONSchemaInput resolving its sources         *)
(*   SpecNeedIR          needIR of a JSONSchemaInput and of InputData      *)
(*   SpecJSON            one JSONInput                                     *)
(* Each leaves the variables of the classes it does not exercise at their  *)
(* initial values.                                                         *)
(*                                                                         *)
(* An async method is one action up to its first await and one action per  *)
(* continuation; a method without await is one action.                     *)
(***************************************************************************)
EXTENDS Integers, Sequences, FiniteSets, TLC

\* ---------------------------------------------------------------- bounds

\* InputData.addSource calls per behaviour of SpecInputData.
MaxSourceCalls == 2
\* InputData.addInput calls per behaviour of SpecInputData.
MaxAddInputCalls == 2
\* JSONSchemaInput.addSource calls per behaviour of SpecSchemaSources.
MaxSourceDataCalls == 2
\* JSONSchemaInput.addSource calls per behaviour of SpecSchema.
MaxSchemaCalls == 2

\* JSONInput.addSource calls per behaviour of SpecJSON.
MaxJSONCalls == 2
\* JSONSchemaInput.addSource calls per behaviour of SpecNeedIR.
MaxConvertedCalls == 2

\* ------------------------------------------------------------ value sets

\* `undefined`, as a schema string, a StringInput or a description.
Undefined == "undefined"
\* Kind strings the callers use ("json" and "schema" are the two of this file).
Kinds == {"json", "schema"}
\* Literal schema texts.
SchemaTexts == {"s1", "s2"}

\* A StringInput that is a Readable stream and not a string.
Stream == "<stream>"
\* Values of JSONSchemaSourceData.schema.
SchemaValues == SchemaTexts \cup {Stream, Undefined}
\* Values of JSONSchemaSourceData.isConverted.
IsConvertedValues == {"undefined", "false", "true"}
\* Declared names of sources.
Names == {"A", "B"}

\* A URI, parsed: its path (with scheme and authority, if any) and its
\* fragment.  "" is an absent part.
Uri(path, hash) == [path |-> path, hash |-> hash]
\* The raw uris callers pass: u, ./u#a (not normalized), u#b, v, #a (fragment only).
RawU == Uri("u", "")
RawDotUA == Uri("./u", "a")
RawUB == Uri("u", "b")
RawV == Uri("v", "")
RawFragA == Uri("", "a")
\* Values of JSONSchemaSourceData.uris when it is given.
UriLists ==
    {<<>>, <<RawU>>, <<RawDotUA>>, <<RawFragA>>, <<RawU, RawV>>, <<RawDotUA, RawUB>>}

\* JSONSchemaSourceData.
SourceData ==
    [name : Names, hasUris : {TRUE}, uris : UriLists, schema : SchemaValues,
     isConverted : IsConvertedValues]
    \cup
    [name : Names, hasUris : {FALSE}, uris : {<<>>}, schema : SchemaValues,
     isConverted : IsConvertedValues]

\* The sources of SpecSchema, which resolves them: with and without uris, with
\* one uri and two, with and without a fragment, with and without literal text.
ResolvedSourceData ==
    {s \in SourceData :
        /\ s.uris \in {<<>>, <<RawU>>, <<RawDotUA>>, <<RawU, RawV>>}
        /\ s.schema \in {Undefined, "s1"}
        /\ s.isConverted = "undefined"}

\* The sources of SpecNeedIR: every value of isConverted, on a source with a
\* text and on one with neither text nor uris.
ConvertedSourceData ==
    {s \in SourceData : s.name = "A" /\ ~s.hasUris /\ s.schema \in {Undefined, "s1"}}

\* Raw samples: "1" and "2" are JSON texts, "x" is not.
RawSamples == {"1", "2", "x"}
\* Values of JSONSourceData.samples.
SampleLists == {<<>>, <<"1">>, <<"1", "2">>, <<"1", "x">>, <<"x", "2">>}
\* Values of JSONSourceData.description.
Descriptions == {Undefined, "d1", "d2"}
\* JSONSourceData.
JSONSourceData == [name : Names, samples : SampleLists, description : Descriptions]

\* ------------------------------------------------------ generic helpers

Last(s) == s[Len(s)]
Front(s) == SubSeq(s, 1, Len(s) - 1)
Range(s) == {s[i] : i \in 1..Len(s)}

\* The elements of a sequence, each once, in order of first occurrence:
\* what Immutable's OrderedSet keeps of the values mapped into it.
RECURSIVE OrderedSetOf(_)
OrderedSetOf(s) ==
    IF s = <<>> THEN <<>>
    ELSE LET r == OrderedSetOf(Front(s))
         IN  IF Last(s) \in Range(r) THEN r ELSE Append(r, Last(s))

RECURSIVE FilterDefined(_)
FilterDefined(s) ==
    IF s = <<>> THEN <<>>
    ELSE IF Last(s) = Undefined THEN FilterDefined(Front(s))
         ELSE Append(FilterDefined(Front(s)), Last(s))

VARIABLES
    \* ---- InputData
    inputs,        \* _inputs: the registered Input objects, in registration order
    nextId,        \* identity of the next Input object to be constructed
    calls,         \* InputData.addSource calls: [kind, target, state]
    makeCount,     \* how often makeInput was invoked, per kind argument
    addInputCalls, \* number of addInput calls made by the caller (not by addSource)
    idResult,      \* result of the last InputData query, until the next mutation
    visit,         \* the finishAddingInputs or addTypes call of InputData in flight,
                   \* or the last one, with the log of its calls on the processors
    \* ---- JSONSchemaInput
    givenSchemaStore, \* whether the constructor was given a JSONSchemaStore
    schemaStore,      \* _schemaStore: "undefined", "given" or "input" (InputJSONSchemaStore)
    schemaInputs,     \* _schemaInputs: Map from address to StringInput
    schemaSources,    \* _schemaSources: List of [uri, source]
    topLevels,        \* _topLevels: OrderedMap from name to Ref
    needIR,           \* _needIR
    finish,           \* the finishAddingInputs call in flight, or the last one
    schemaCalls,      \* number of addSource calls made
    submitted,        \* the sources of the addSource calls that returned
    lastResolution,   \* the last resolution registered by finishAddingInputs, how
                      \* many sources had been submitted by then, and the log of
                      \* all addTopLevel calls so far
    schemaResult,     \* outcome of the last JSONSchemaInput method call; of an
                      \* addSource call also its argument and its uriPath
    \* ---- JSONInput
    jsonTopLevels,  \* _topLevels: OrderedMap from name to JSONTopLevel
    jsonCalls,      \* the addSource calls made: [name, samples, description, idx, state],
                    \* with the top levels as the call found them (before) and
                    \* whether no other call was in flight then (alone)
    jsonOverlap,    \* names for which an addSource call began during another one
    jsonResult      \* outcome of the last other JSONInput method call

inputDataVars == <<inputs, nextId, calls, makeCount, addInputCalls, idResult, visit>>

jsonVars == <<jsonTopLevels, jsonCalls, jsonOverlap, jsonResult>>

schemaVars ==
    <<givenSchemaStore, schemaStore, schemaInputs, schemaSources, topLevels, needIR,
      finish, schemaCalls, submitted, lastResolution, schemaResult>>

vars == <<inputDataVars, schemaVars, jsonVars>>

\* What the methods of one class leave alone: the objects of the other classes.
outsideInputData == <<schemaVars, jsonVars>>
outsideSchema == <<inputDataVars, jsonVars>>
outsideJSON == <<inputDataVars, schemaVars>>

\* ============================================================ InputData

NoResult == [op |-> "none", status |-> "none", value |-> Undefined]

\* An Input<T> object as InputData sees it: its identity, its readonly kind
\* and what its getters and singleStringSchemaSource() currently answer.
InputObject(id, kind, sss, ir) ==
    [id |-> id, kind |-> kind, sss |-> sss, needIR |-> ir]

\* What an Input of the given kind may answer.  A JSONInput always answers
\* undefined and needIR = true; other implementations answer anything.
AnswersOf(kind) ==
    IF kind = "json"
    THEN {[sss |-> Undefined, needIR |-> TRUE]}
    ELSE [sss : SchemaTexts \cup {Undefined}, needIR : BOOLEAN]

\* OrderedSet.add: identity comparison, an object already present is kept.
OrderedSetAdd(set, obj) ==
    IF \E i \in 1..Len(set) : set[i].id = obj.id THEN set ELSE Append(set, obj)

\* this._inputs.find(i => i.kind === kind): index of the first match, 0 for undefined.
FindInputNever(set, kind) == 0
FindInput(set, kind) ==
    IF \E i \in 1..Len(set) : set[i].kind = kind
    THEN CHOOSE i \in 1..Len(set) :
            /\ set[i].kind = kind
            /\ \A j \in 1..(i - 1) : set[j].kind # kind
    ELSE 0

\* No finishAddingInputs or addTypes call of InputData was made yet.
NoVisit == [op |-> "none", pc |-> "idle", over |-> <<>>, idx |-> 0, log |-> <<>>]

\* The callers keep to one task per session: while finishAddingInputs or
\* addTypes of InputData is suspended they call no other method of it.
NotVisiting == visit.pc # "visiting"

InitInputData ==
    /\ inputs = <<>>
    /\ nextId = 1
    /\ calls = <<>>
    /\ makeCount = [k \in Kinds |-> 0]
    /\ addInputCalls = 0
    /\ idResult = NoResult
    /\ visit = NoVisit

\* addInput(input), called by the user of InputData with an object that is
\* either new or one already constructed (registered) before.
AddInput ==
    /\ addInputCalls < MaxAddInputCalls
    /\ NotVisiting
    /\ \/ \E kind \in Kinds : \E a \in AnswersOf(kind) :
            /\ inputs' = OrderedSetAdd(inputs, InputObject(nextId, kind, a.sss, a.needIR))
            /\ nextId' = nextId + 1
       \/ \E i \in 1..Len(inputs) :
            /\ inputs' = OrderedSetAdd(inputs, inputs[i])
            /\ nextId' = nextId
    /\ addInputCalls' = addInputCalls + 1
    /\ idResult' = NoResult
    /\ UNCHANGED <<calls, makeCount, visit, outsideInputData>>

\* addSource(kind, source, makeInput) up to its await: find, make and register
\* run without suspension, then input.addSource(source) is called and awaited.
\* makeInput is the factory of that kind: the object it makes has that kind.
AddSource ==
    /\ Len(calls) < MaxSourceCalls
    /\ NotVisiting
    /\ \E kind \in Kinds :
        LET found == FindInput(inputs, kind) IN
        IF found = 0
        THEN \E a \in AnswersOf(kind) :
                /\ inputs' = OrderedSetAdd(inputs, InputObject(nextId, kind, a.sss, a.needIR))
                /\ nextId' = nextId + 1
                /\ makeCount' = [makeCount EXCEPT ![kind] = @ + 1]
                /\ calls' = Append(calls, [kind |-> kind, target |-> nextId, state |-> "awaiting"])
        ELSE /\ calls' = Append(calls, [kind |-> kind, target |-> inputs[found].id, state |-> "awaiting"])
             /\ UNCHANGED <<inputs, nextId, makeCount>>
    /\ idResult' = NoResult
    /\ UNCHANGED <<addInputCalls, visit, outsideInputData>>

\* The awaited input.addSource(source) settles: the processor has taken the
\* source (its answers may have changed) or has rejected it.
AddSourceReturn ==
    \E c \in 1..Len(calls) :
        /\ calls[c].state = "awaiting"
        /\ \E i \in 1..Len(inputs) :
            /\ inputs[i].id = calls[c].target
            /\ \/ \E a \in AnswersOf(inputs[i].kind) :
                    /\ inputs' = [inputs EXCEPT ![i] = InputObject(@.id, @.kind, a.sss, a.needIR)]
                    /\ calls' = [calls EXCEPT ![c].state = "resolved"]
               \/ /\ calls' = [calls EXCEPT ![c].state = "rejected"]
                  /\ UNCHANGED inputs
        /\ idResult' = NoResult
        /\ UNCHANGED <<nextId, makeCount, addInputCalls, visit, outsideInputData>>

\* this._inputs.map(i => i.singleStringSchemaSource()).filter(s => s !== undefined):
\* map on an OrderedSet yields an OrderedSet.
SchemaStringsAsList(set) == FilterDefined([i \in 1..Len(set) |-> set[i].sss])
SchemaStrings(set) == FilterDefined(OrderedSetOf([i \in 1..Len(set) |-> set[i].sss]))

InputDataSingleStringSchemaSource(set) ==
    LET schemaStrings == SchemaStrings(set) IN
    IF Len(schemaStrings) > 1
    THEN [op |-> "singleStringSchemaSource", status |-> "panic", value |-> "MultipleSchemaSources"]
    ELSE [op |-> "singleStringSchemaSource", status |-> "return",
          value |-> IF schemaStrings = <<>> THEN Undefined ELSE schemaStrings[1]]

\* get needIR(): this._inputs.some(i => i.needIR)
InputDataNeedIRAll(set) == \A i \in 1..Len(set) : set[i].needIR
InputDataNeedIR(set) == \E i \in 1..Len(set) : set[i].needIR

\* The needIR getter of InputData is read.
NeedIR ==
    /\ idResult' = [op |-> "needIR", status |-> "return", value |-> InputDataNeedIR(inputs)]
    /\ UNCHANGED <<inputs, nextId, calls, makeCount, addInputCalls, visit, outsideInputData>>

SingleStringSchemaSource ==
    /\ idResult' = InputDataSingleStringSchemaSource(inputs)
    /\ UNCHANGED <<inputs, nextId, calls, makeCount, addInputCalls, visit, outsideInputData>>

\* The collection that finishAddingInputs and addTypes hand to forEachSync:
\* this._inputs, the OrderedSet as it is when the method is called.
VisitedCollectionReversed(set) == [i \in 1..Len(set) |-> set[Len(set) + 1 - i].id]
VisitedCollection(set) == [i \in 1..Len(set) |-> set[i].id]

\* A call on a processor, as the log keeps it.
VisitEvent(id, event) == [id |-> id, event |-> event]

\* forEachSync(collection, f): f is called on the elements in the order of the
\* collection, each call awaited before the next is made; a rejection ends it.
ForEachSyncBegin(op, over) ==
    IF over = <<>>
    THEN [op |-> op, pc |-> "returned", over |-> over, idx |-> 0, log |-> <<>>]
    ELSE [op |-> op, pc |-> "visiting", over |-> over, idx |-> 1,
          log |-> <<VisitEvent(over[1], "start")>>]

ForEachSyncResolved(v) ==
    LET ended == Append(v.log, VisitEvent(v.over[v.idx], "end")) IN
    IF v.idx = Len(v.over)
    THEN [v EXCEPT !.pc = "returned", !.log = ended]
    ELSE [v EXCEPT !.idx = @ + 1,
                   !.log = Append(ended, VisitEvent(v.over[v.idx + 1], "start"))]

ForEachSyncRejected(v) ==
    [v EXCEPT !.pc = "rejected", !.log = Append(@, VisitEvent(v.over[v.idx], "fail"))]

\* InputData.finishAddingInputs() or InputData.addTypes(...), up to the first
\* await of a processor's method of that name.
VisitBegin ==
    /\ NotVisiting
    /\ \A c \in 1..Len(calls) : calls[c].state # "awaiting"
    /\ \E op \in {"finishAddingInputs", "addTypes"} :
          visit' = ForEachSyncBegin(op, VisitedCollection(inputs))
    /\ idResult' = NoResult
    /\ UNCHANGED <<inputs, nextId, calls, makeCount, addInputCalls, outsideInputData>>

\* The awaited call on the processor resolves.
VisitResolved ==
    /\ visit.pc = "visiting"
    /\ visit' = ForEachSyncResolved(visit)
    /\ UNCHANGED <<inputs, nextId, calls, makeCount, addInputCalls, idResult, outsideInputData>>

\* The awaited call on the processor rejects (or the method throws).
VisitRejected ==
    /\ visit.pc = "visiting"
    /\ visit' = ForEachSyncRejected(visit)
    /\ UNCHANGED <<inputs, nextId, calls, makeCount, addInputCalls, idResult, outsideInputData>>

\* ====================================================== JSONSchemaInput

\* new URI(uri).normalize(): URI.js resolves "." segments of the path (and
\* lower-cases scheme and host); the fragment is kept.
NormalizePath(path) == IF path = "./u" THEN "u" ELSE path
Normalize(uri) == Uri(NormalizePath(uri.path), uri.hash)

\* normalizedURI.clone().hash("").toString(): the URI without its fragment.
StringWithHash(uri) == IF uri.hash = "" THEN uri.path ELSE uri.path \o "#" \o uri.hash
HashStrippedString(uri) == uri.path

\* `-${n}`
DashNumber(n) == <<"-1", "-2", "-3", "-4", "-5", "-6", "-7", "-8", "-9", "-10", "-11", "-12">>[n]

\* const uriPath = `-${this._schemaInputs.size + 1}`
UriPath(map) == DashNumber(Cardinality(DOMAIN map) + 1)

\* The uris.map callback of addSource: normalize, and give a URI that is empty
\* but for its fragment the synthetic path.
NormalizedURI(uri, uriPath) ==
    LET normalizedURI == Normalize(uri) IN
    IF HashStrippedString(normalizedURI) = ""
    THEN Uri(uriPath, normalizedURI.hash)
    ELSE normalizedURI

\* normalizedURIs of addSource.
NormalizedURIs(source, uriPath) ==
    IF ~source.hasUris
    THEN <<Uri(uriPath, "")>>
    ELSE [i \in 1..Len(source.uris) |-> NormalizedURI(source.uris[i], uriPath)]

\* Map.set
MapSet(map, key, value) ==
    [k \in DOMAIN map \cup {key} |-> IF k = key THEN value ELSE map[k]]

\* The loop of lines 256-264: this._schemaInputs.set(<stripped uri>, schema) for each uri.
RECURSIVE SetSchemaInputs(_, _, _)
SetSchemaInputs(map, uris, schema) ==
    IF uris = <<>> THEN map
    ELSE MapSet(SetSchemaInputs(map, Front(uris), schema),
                HashStrippedString(Last(uris)), schema)

\* The entry of _schemaSources for a uri of a source.  Of the source only
\* name and schema are read again (lines 286, 306, 309).
SourcePair(uri, source) == [uri |-> uri, name |-> source.name, schema |-> source.schema]

\* The loop of lines 267-269.
PushSchemaSourcesInFront(list, uris, source) ==
    [i \in 1..Len(uris) |-> SourcePair(uris[i], source)] \o list
PushSchemaSources(list, uris, source) ==
    list \o [i \in 1..Len(uris) |-> SourcePair(uris[i], source)]

\* assert(uris !== undefined, ...) of line 254, reached when schema === undefined.
UrisGiven(source) == source.hasUris

\* OrderedMap.set: an existing key keeps its place and takes the new value.
OrderedMapKeepFirst(map, name, ref) ==
    IF \E i \in 1..Len(map) : map[i].name = name THEN map
    ELSE Append(map, [name |-> name, ref |-> ref])
OrderedMapSet(map, name, ref) ==
    IF \E i \in 1..Len(map) : map[i].name = name
    THEN [i \in 1..Len(map) |-> IF map[i].name = name THEN [name |-> name, ref |-> ref]
                                                        ELSE map[i]]
    ELSE Append(map, [name |-> name, ref |-> ref])

\* addTopLevel(name, ref)
AddTopLevel(map, name, ref) == OrderedMapSet(map, name, ref)

\* The callers keep to one task per session: while finishAddingInputs is
\* suspended in an await they call no other method of the JSONSchemaInput.
NotSuspended == finish.pc # "resolving"

NoCall == [op |-> "none", status |-> "none", value |-> Undefined]
NoFinish == [pc |-> "idle", len |-> 0, idx |-> 0, error |-> "none"]
NoResolution ==
    [idx |-> 0, kind |-> "none", given |-> Undefined, resolved |-> <<>>, sources |-> 0,
     registered |-> <<>>, log |-> <<>>]

\* new JSONSchemaInput(givenSchemaStore)
InitSchemaWith(given) ==
    /\ givenSchemaStore = given
    /\ schemaStore = IF given THEN "given" ELSE "undefined"
    /\ schemaInputs = <<>>
    /\ schemaSources = <<>>
    /\ topLevels = <<>>
    /\ needIR = FALSE
    /\ finish = NoFinish
    /\ schemaCalls = 0
    /\ submitted = <<>>
    /\ lastResolution = NoResolution
    /\ schemaResult = NoCall

InitSchema == \E given \in BOOLEAN : InitSchemaWith(given)

\* if (isConverted !== true) { this._needIR = true; }
SetNeedIRToLast(ir, isConverted) == isConverted # "true"
SetNeedIR(ir, isConverted) == IF isConverted # "true" THEN TRUE ELSE ir

\* JSONSchemaInput.addSource(schemaSource).  The method has no await: it runs
\* to its end, or to the failing assert, in one step.
SchemaAddSourceOf(Sources, MaxCalls) ==
    /\ schemaCalls < MaxCalls
    /\ NotSuspended
    /\ \E source \in Sources :
        LET uriPath == UriPath(schemaInputs)
            normalizedURIs == NormalizedURIs(source, uriPath)
        IN  /\ needIR' = SetNeedIR(needIR, source.isConverted)
            /\ IF source.schema = Undefined /\ ~UrisGiven(source)
               THEN /\ schemaResult' = [op |-> "addSource", status |-> "panic",
                                        value |-> "MissingSchemaSource", arg |-> source,
                                        uriPath |-> uriPath]
                    /\ UNCHANGED <<schemaInputs, schemaSources, submitted>>
               ELSE /\ schemaInputs' =
                          IF source.schema = Undefined THEN schemaInputs
                          ELSE SetSchemaInputs(schemaInputs, normalizedURIs, source.schema)
                    /\ schemaSources' = PushSchemaSources(schemaSources, normalizedURIs, source)
                    /\ submitted' = Append(submitted, [name |-> source.name,
                                                       schema |-> source.schema,
                                                       hasUris |-> source.hasUris,
                                                       uris |-> Len(source.uris)])
                    /\ schemaResult' = [op |-> "addSource", status |-> "return",
                                        value |-> Undefined, arg |-> source,
                                        uriPath |-> uriPath]
    /\ schemaCalls' = schemaCalls + 1
    /\ UNCHANGED <<outsideSchema, givenSchemaStore, schemaStore, topLevels, finish, lastResolution>>

\* addSource with any source.
SchemaAddSource == SchemaAddSourceOf(SourceData, MaxSourceDataCalls)

\* addSource with a source of SpecSchema.
SchemaAddResolvedSource == SchemaAddSourceOf(ResolvedSourceData, MaxSchemaCalls)

\* addSource with a source of SpecNeedIR.
SchemaAddConvertedSource == SchemaAddSourceOf(ConvertedSourceData, MaxConvertedCalls)

\* The test of lines 276-279: the cache is empty and there is no store.
MustPanicWithoutStoreIgnoringCache(map, store) == store = "undefined"
MustPanicWithoutStore(map, store) == Cardinality(DOMAIN map) = 0 /\ store = "undefined"

\* finishAddingInputs() up to its first await: the emptiness test, the store
\* test, the wrapping of the store, and the first refsInSchemaForURI call.
\* forEachSync runs over the List that _schemaSources holds at this moment.
\* The caller calls finishAddingInputs once in a session.
SchemaFinishBegin ==
    /\ finish.pc = "idle"
    /\ IF schemaSources = <<>>
       THEN /\ finish' = [pc |-> "returned", len |-> 0, idx |-> 0, error |-> "none"]
            /\ schemaResult' = [op |-> "finishAddingInputs", status |-> "return", value |-> Undefined]
            /\ UNCHANGED schemaStore
       ELSE IF MustPanicWithoutStore(schemaInputs, schemaStore)
       THEN /\ finish' = [pc |-> "rejected", len |-> 0, idx |-> 0, error |-> "NoSchemaStoreConfigured"]
            /\ schemaResult' = [op |-> "finishAddingInputs", status |-> "panic",
                                value |-> "NoSchemaStoreConfigured"]
            /\ UNCHANGED schemaStore
       ELSE /\ schemaStore' = IF Cardinality(DOMAIN schemaInputs) = 0 THEN schemaStore ELSE "input"
            /\ finish' = [pc |-> "resolving", len |-> Len(schemaSources), idx |-> 1, error |-> "none"]
            /\ schemaResult' = [op |-> "finishAddingInputs", status |-> "pending", value |-> Undefined]
    /\ UNCHANGED <<outsideSchema, givenSchemaStore, schemaInputs, schemaSources, topLevels, needIR,
                   schemaCalls, submitted, lastResolution>>

\* InputJSONSchemaStore.fetch(address) where there is nothing to fetch: the
\* address is not among the inputs and there is no delegate.
FetchPanics(store, given, map, address) ==
    /\ store = "input"
    /\ address \notin DOMAIN map
    /\ ~given

\* The Ref that refsInSchemaForURI makes of a uri, and of a property under it.
RefOf(uri, property) == [uri |-> uri, property |-> property]

\* Names that refsInSchemaForURI gives a single reference: the schema's title
\* or a name made from the uri ("T"), or the default name it was passed.
SingleNames(defaultName) == {"T", defaultName}
\* Names of the references of a Map result: the properties under the fragment.
MultiNames == {<<"T", "P">>}

\* The name a single reference is registered under (lines 290-295).
NameAlwaysResolved(size, givenName, resolvedName) == resolvedName
TopLevelName(size, givenName, resolvedName) ==
    IF size = 1 THEN givenName ELSE resolvedName

\* The end of one forEachSync callback: the next one is called, or the
\* method returns.
FinishAdvance ==
    IF finish.idx = finish.len
    THEN /\ finish' = [finish EXCEPT !.pc = "returned"]
         /\ schemaResult' = [op |-> "finishAddingInputs", status |-> "return", value |-> Undefined]
    ELSE /\ finish' = [finish EXCEPT !.idx = @ + 1]
         /\ schemaResult' = [op |-> "finishAddingInputs", status |-> "pending", value |-> Undefined]

\* await refsInSchemaForURI(...) returns [name, ref]: Array.isArray(refs).
SchemaFinishResolveSingle ==
    /\ finish.pc = "resolving"
    /\ LET pair == schemaSources[finish.idx] IN
       /\ ~FetchPanics(schemaStore, givenSchemaStore, schemaInputs, HashStrippedString(pair.uri))
       /\ \E resolvedName \in SingleNames(pair.name) :
            LET name == TopLevelName(Len(schemaSources), pair.name, resolvedName)
                ref == RefOf(pair.uri, "")
            IN  /\ topLevels' = AddTopLevel(topLevels, name, ref)
                /\ lastResolution' =
                       [idx |-> finish.idx, kind |-> "single", given |-> pair.name,
                        resolved |-> <<resolvedName>>, sources |-> Len(submitted),
                        registered |-> <<[name |-> name, ref |-> ref]>>,
                        log |-> Append(lastResolution.log, [name |-> name, ref |-> ref])]
    /\ FinishAdvance
    /\ UNCHANGED <<outsideSchema, givenSchemaStore, schemaStore, schemaInputs, schemaSources, needIR,
                   schemaCalls, submitted>>

RECURSIVE AddTopLevels(_, _)
AddTopLevels(map, entries) ==
    IF entries = <<>> THEN map
    ELSE AddTopLevel(AddTopLevels(map, Front(entries)), Last(entries).name, Last(entries).ref)

\* await refsInSchemaForURI(...) returns a Map of names to refs.
SchemaFinishResolveMulti ==
    /\ finish.pc = "resolving"
    /\ LET pair == schemaSources[finish.idx] IN
       /\ ~FetchPanics(schemaStore, givenSchemaStore, schemaInputs, HashStrippedString(pair.uri))
       /\ \E names \in MultiNames :
            LET entries == [i \in 1..Len(names) |->
                               [name |-> names[i], ref |-> RefOf(pair.uri, names[i])]]
            IN  /\ topLevels' = AddTopLevels(topLevels, entries)
                /\ lastResolution' =
                       [idx |-> finish.idx, kind |-> "multi", given |-> pair.name,
                        resolved |-> names, sources |-> Len(submitted),
                        registered |-> entries,
                        log |-> lastResolution.log \o entries]
    /\ FinishAdvance
    /\ UNCHANGED <<outsideSchema, givenSchemaStore, schemaStore, schemaInputs, schemaSources, needIR,
                   schemaCalls, submitted>>

\* await refsInSchemaForURI(...) throws: the fetch panicked for want of a
\* store, or the document could not be fetched, parsed or accepted.  The
\* rejection ends forEachSync and finishAddingInputs.
SchemaFinishResolveFail ==
    /\ finish.pc = "resolving"
    /\ LET pair == schemaSources[finish.idx]
           error == IF FetchPanics(schemaStore, givenSchemaStore, schemaInputs,
                                   HashStrippedString(pair.uri))
                    THEN "UnresolvableSchemaAddress" ELSE "ResolutionError"
       IN  /\ finish' = [finish EXCEPT !.pc = "rejected", !.error = error]
           /\ schemaResult' = [op |-> "finishAddingInputs", status |-> "panic", value |-> error]
    /\ UNCHANGED <<outsideSchema, givenSchemaStore, schemaStore, schemaInputs, schemaSources, topLevels, needIR,
                   schemaCalls, submitted, lastResolution>>

\* addTypes(typeBuilder): defined(this._schemaStore) panics on undefined;
\* otherwise the store and the OrderedMap _topLevels go to addTypesInSchema.
SchemaAddTypes ==
    /\ NotSuspended
    /\ schemaResult' =
          IF schemaStore = "undefined"
          THEN [op |-> "addTypes", status |-> "panic", value |-> "DefinedPanic"]
          ELSE [op |-> "addTypes", status |-> "return", value |-> topLevels]
    /\ UNCHANGED <<outsideSchema, givenSchemaStore, schemaStore, schemaInputs, schemaSources, topLevels, needIR,
                   finish, schemaCalls, submitted, lastResolution>>

\* singleStringSchemaSource() of JSONSchemaInput.
SchemaSingleString(list) ==
    IF ~(\A i \in 1..Len(list) : list[i].schema \in SchemaTexts)
    THEN Undefined
    ELSE LET set == {list[i].schema : i \in 1..Len(list)} IN
         IF Cardinality(set) = 1 THEN CHOOSE t \in set : TRUE ELSE Undefined

SchemaSingleStringSchemaSource ==
    /\ NotSuspended
    /\ schemaResult' = [op |-> "singleStringSchemaSource", status |-> "return",
                        value |-> SchemaSingleString(schemaSources)]
    /\ UNCHANGED <<outsideSchema, givenSchemaStore, schemaStore, schemaInputs, schemaSources, topLevels, needIR,
                   finish, schemaCalls, submitted, lastResolution>>

\* get needIR()
SchemaNeedIR ==
    /\ NotSuspended
    /\ schemaResult' = [op |-> "needIR", status |-> "return", value |-> needIR]
    /\ UNCHANGED <<outsideSchema, givenSchemaStore, schemaStore, schemaInputs, schemaSources, topLevels, needIR,
                   finish, schemaCalls, submitted, lastResolution>>

\* ============================================================ JSONInput

\* this._compressedJSON.readFromStream(toReadable(sample)): the Value of a
\* sample that is JSON; a sample that is not makes the promise reject.
Parses(sample) == sample # "x"
ReadFromStream(sample) ==
    CASE sample = "1" -> "v1"
      [] sample = "2" -> "v2"
      [] OTHER -> Undefined

\* this._topLevels.get(topLevelName): index of the top level, 0 for undefined.
GetTopLevel(map, topLevelName) ==
    IF \E i \in 1..Len(map) : map[i].name = topLevelName
    THEN CHOOSE i \in 1..Len(map) : map[i].name = topLevelName
    ELSE 0

\* addSample(topLevelName, sample)
AddSampleAnew(map, topLevelName, sample) ==
    LET i == GetTopLevel(map, topLevelName) IN
    IF i = 0
    THEN Append(map, [name |-> topLevelName, samples |-> <<sample>>, description |-> Undefined])
    ELSE [map EXCEPT ![i].samples = <<sample>>]
AddSampleAfterCreating(map, topLevelName, sample) ==
    LET i == GetTopLevel(map, topLevelName) IN
    IF i = 0
    THEN Append(map, [name |-> topLevelName, samples |-> <<>>, description |-> Undefined])
    ELSE [map EXCEPT ![i].samples = Append(@, sample)]
AddSample(map, topLevelName, sample) ==
    LET i == GetTopLevel(map, topLevelName) IN
    IF i = 0
    THEN Append(map, [name |-> topLevelName, samples |-> <<sample>>, description |-> Undefined])
    ELSE [map EXCEPT ![i].samples = Append(@, sample)]

\* setDescription(topLevelName, description), for a top level that exists (it
\* is called right after addSample made it).
SetDescriptionNever(map, topLevelName, description) == map
SetDescription(map, topLevelName, description) ==
    [map EXCEPT ![GetTopLevel(map, topLevelName)].description = description]

InitJSON ==
    /\ jsonTopLevels = <<>>
    /\ jsonCalls = <<>>
    /\ jsonOverlap = {}
    /\ jsonResult = NoCall

\* addSource(source) up to its first await, the readFromStream of the first
\* sample; with no sample it returns at once.
JSONAddSource ==
    /\ Len(jsonCalls) < MaxJSONCalls
    /\ \E source \in JSONSourceData :
        /\ jsonCalls' = Append(jsonCalls,
              [name |-> source.name, samples |-> source.samples,
               description |-> source.description, idx |-> 1,
               state |-> IF source.samples = <<>> THEN "returned" ELSE "reading",
               before |-> jsonTopLevels,
               alone |-> \A c \in 1..Len(jsonCalls) : jsonCalls[c].state # "reading"])
        /\ jsonOverlap' =
              IF \E c \in 1..Len(jsonCalls) :
                    jsonCalls[c].name = source.name /\ jsonCalls[c].state = "reading"
              THEN jsonOverlap \cup {source.name} ELSE jsonOverlap
    /\ UNCHANGED <<jsonTopLevels, jsonResult, outsideJSON>>

\* The awaited readFromStream returns a value: lines 120-123, then the next
\* sample is read or the method returns.
JSONReadReturns ==
    \E c \in 1..Len(jsonCalls) :
        LET call == jsonCalls[c]
            added == AddSample(jsonTopLevels, call.name, ReadFromStream(call.samples[call.idx]))
        IN  /\ call.state = "reading"
            /\ Parses(call.samples[call.idx])
            /\ jsonTopLevels' =
                  IF call.description # Undefined
                  THEN SetDescription(added, call.name, call.description)
                  ELSE added
            /\ jsonCalls' =
                  IF call.idx = Len(call.samples)
                  THEN [jsonCalls EXCEPT ![c].state = "returned"]
                  ELSE [jsonCalls EXCEPT ![c].idx = @ + 1]
            /\ UNCHANGED <<jsonOverlap, jsonResult, outsideJSON>>

\* The awaited readFromStream throws: messageError("MiscJSONParseError", ...)
\* ends the call.
JSONReadThrows ==
    \E c \in 1..Len(jsonCalls) :
        /\ jsonCalls[c].state = "reading"
        /\ ~Parses(jsonCalls[c].samples[jsonCalls[c].idx])
        /\ jsonCalls' = [jsonCalls EXCEPT ![c].state = "MiscJSONParseError"]
        /\ UNCHANGED <<jsonTopLevels, jsonOverlap, jsonResult, outsideJSON>>

\* addTypes(...): every top level, in insertion order, goes to inferType and
\* typeBuilder.addTopLevel, with its description if it has one.
JSONAddTypes ==
    /\ jsonResult' = [op |-> "addTypes", status |-> "return", value |-> jsonTopLevels]
    /\ UNCHANGED <<jsonTopLevels, jsonCalls, jsonOverlap, outsideJSON>>

\* ======================================================= specifications

\* InputData, with Input<T> objects of any implementation.
NextInputData ==
    \/ AddInput
    \/ AddSource
    \/ AddSourceReturn
    \/ SingleStringSchemaSource

\* Every object as its constructor leaves it; no schema store is given.
Init == InitInputData /\ InitSchemaWith(FALSE) /\ InitJSON

\* As Init, with or without a schema store given to the JSONSchemaInput.
InitWithStore == InitInputData /\ InitSchema /\ InitJSON

SpecInputData == Init /\ [][NextInputData]_vars

\* InputData through registration, finishAddingInputs and addTypes.
NextInputDataVisit ==
    \/ AddInput
    \/ VisitBegin
    \/ VisitResolved
    \/ VisitRejected

SpecInputDataVisit == Init /\ [][NextInputDataVisit]_vars

\* One JSONSchemaInput that is given sources and asked what it holds.
NextSchemaSources ==
    \/ SchemaAddSource
    \/ SchemaSingleStringSchemaSource
    \/ SchemaNeedIR

SpecSchemaSources == InitWithStore /\ [][NextSchemaSources]_vars

\* One JSONSchemaInput through addSource, finishAddingInputs and addTypes.
NextSchema ==
    \/ SchemaAddResolvedSource
    \/ SchemaFinishBegin
    \/ SchemaFinishResolveSingle
    \/ SchemaFinishResolveMulti
    \/ SchemaFinishResolveFail
    \/ SchemaAddTypes
    \/ SchemaSingleStringSchemaSource

SpecSchema == InitWithStore /\ [][NextSchema]_vars

\* One JSONSchemaInput through every method that may touch needIR, beside an
\* InputData whose needIR is read.
NextNeedIR ==
    \/ SchemaAddConvertedSource
    \/ SchemaFinishBegin
    \/ SchemaFinishResolveSingle
    \/ SchemaFinishResolveMulti
    \/ SchemaFinishResolveFail
    \/ SchemaAddTypes
    \/ SchemaSingleStringSchemaSource
    \/ SchemaNeedIR
    \/ AddInput
    \/ NeedIR

SpecNeedIR == InitWithStore /\ [][NextNeedIR]_vars

\* One JSONInput.
NextJSON ==
    \/ JSONAddSource
    \/ JSONReadReturns
    \/ JSONReadThrows
    \/ JSONAddTypes

SpecJSON == Init /\ [][NextJSON]_vars

\* ------------------------------------------------- claims on InputData

RegisteredOfKind(k) == {i \in 1..Len(inputs) : inputs[i].kind = k}

\* C1: after any sequence of addSource and addInput calls no two
\* registered processors have the same kind string.
C1_AtMostOneInputPerKind ==
    \A i, j \in 1..Len(inputs) : inputs[i].kind = inputs[j].kind => i = j

\* C2: with addSource calls only (overlapping or not), makeInput is invoked at
\* most once per kind, the registry holds exactly one processor for each kind
\* a call named and none for the others, and every call of a kind is fed to
\* that one processor.
C2_AddSourceOneProcessorPerKind ==
    addInputCalls = 0 =>
        \A k \in Kinds :
            /\ makeCount[k] <= 1
            /\ Cardinality(RegisteredOfKind(k)) =
                  (IF \E c \in 1..Len(calls) : calls[c].kind = k THEN 1 ELSE 0)
            /\ \A c \in 1..Len(calls) :
                  calls[c].kind = k =>
                      \A i \in RegisteredOfKind(k) : inputs[i].id = calls[c].target

\* C2's case: two addSource calls of one kind are in flight together.
C2_Witness ==
    /\ addInputCalls = 0
    /\ \E c1, c2 \in 1..Len(calls) :
          /\ c1 # c2
          /\ calls[c1].kind = calls[c2].kind
          /\ calls[c1].state = "awaiting"
          /\ calls[c2].state = "awaiting"

ReportedStrings == {inputs[i].sss : i \in 1..Len(inputs)} \ {Undefined}

\* C9: InputData.singleStringSchemaSource panics exactly when two registered
\* processors report literal schema strings that differ; otherwise it returns
\* the one reported string (however many processors report it), or undefined
\* when every processor reports undefined.
C9_MultipleSchemaSourcesIffDiffer ==
    idResult.op = "singleStringSchemaSource" =>
        /\ idResult.status = "panic" <=>
              \E i, j \in 1..Len(inputs) :
                  /\ inputs[i].sss # Undefined
                  /\ inputs[j].sss # Undefined
                  /\ inputs[i].sss # inputs[j].sss
        /\ idResult.status = "return" =>
              IF ReportedStrings = {} THEN idResult.value = Undefined
              ELSE ReportedStrings = {idResult.value}

\* C9's case: two processors report the same string and the call returned it.
C9_Witness ==
    /\ idResult.op = "singleStringSchemaSource"
    /\ idResult.status = "return"
    /\ idResult.value \in SchemaTexts
    /\ \E i, j \in 1..Len(inputs) :
          i # j /\ inputs[i].sss = idResult.value /\ inputs[j].sss = idResult.value

\* A sequence is the beginning of another.
IsPrefix(s, t) == Len(s) <= Len(t) /\ \A i \in 1..Len(s) : s[i] = t[i]

\* The processors registered, in registration order.
Registered == [i \in 1..Len(inputs) |-> inputs[i].id]

\* The log is that of calls made one at a time in the given order: the call
\* on the k-th processor starts only after the calls on the ones before it
\* have ended, and nothing follows a call that failed.
OneAtATimeInOrder(log, order) ==
    /\ Len(log) <= 2 * Len(order)
    /\ \A k \in 1..Len(log) :
          /\ log[k].id = order[(k + 1) \div 2]
          /\ log[k].event = (IF k % 2 = 1 THEN "start"
                             ELSE IF k < Len(log) THEN "end"
                             ELSE log[k].event)
          /\ log[k].event \in {"start", "end", "fail"}

\* C13: finishAddingInputs and addTypes of InputData call the processors
\* registered when they are called (visit.over) in registration order, one at
\* a time; one that has returned has called every one of them, one that has
\* failed has called none after the processor that failed.
C13_VisitsInRegistrationOrder ==
    /\ OneAtATimeInOrder(visit.log, Registered)
    /\ IsPrefix(visit.over, Registered)
    /\ visit.pc = "visiting" => visit.over = Registered
    /\ visit.pc = "returned" =>
          /\ Len(visit.log) = 2 * Len(visit.over)
          /\ \A k \in 1..Len(visit.log) : visit.log[k].event # "fail"
    /\ visit.pc = "rejected" =>
          /\ Last(visit.log).event = "fail"
          /\ \A k \in 1..(Len(visit.log) - 1) : visit.log[k].event # "fail"
    /\ visit.pc = "visiting" => Last(visit.log).event = "start"

\* C13's case: with two processors registered, the call on the first returned
\* and the call on the second failed.
C13_Witness ==
    /\ Len(inputs) >= 2
    /\ visit.pc = "rejected"
    /\ Len(visit.log) = 4
    /\ visit.log[4] = VisitEvent(inputs[2].id, "fail")

\* ------------------------------------------- claims on JSONSchemaInput

\* finishAddingInputs has returned after resolving every accumulated pair.
FinishedOver(n) ==
    finish.pc = "returned" /\ finish.len = n /\ Len(schemaSources) = n

\* The one source of the session bears one uri and a schema body.
OneSourceOneUriWithBody ==
    /\ Len(submitted) = 1
    /\ submitted[1].hasUris
    /\ submitted[1].uris = 1
    /\ submitted[1].schema # Undefined

\* addTypes has handed the top levels of the finished session on.
AddTypesAfterFinish ==
    /\ schemaResult.op = "addTypes"
    /\ schemaResult.status = "return"
    /\ FinishedOver(1)

\* C3 (as stated): with exactly one source of one uri and a literal schema body,
\* finishAddingInputs followed by addTypes yields exactly one top level, named
\* as the source declares, whatever the resolver returned.
C3_OneTopLevelNamedAsDeclared ==
    (OneSourceOneUriWithBody /\ AddTypesAfterFinish) =>
        /\ Len(schemaResult.value) = 1
        /\ schemaResult.value[1].name = schemaSources[1].name

\* C3 (amended): the same, when the resolver returned a single reference.
C3_OneTopLevelWhenSingleReference ==
    (OneSourceOneUriWithBody /\ AddTypesAfterFinish /\ lastResolution.kind = "single") =>
        /\ Len(schemaResult.value) = 1
        /\ schemaResult.value[1].name = schemaSources[1].name
        /\ schemaResult.value[1].ref = RefOf(schemaSources[1].uri, "")

\* C3's case: the uri has a fragment, the resolver named the reference
\* otherwise than the source, and addTypes ran after finishAddingInputs.
C3_Witness ==
    /\ OneSourceOneUriWithBody
    /\ AddTypesAfterFinish
    /\ lastResolution.kind = "single"
    /\ lastResolution.resolved[1] # schemaSources[1].name
    /\ schemaSources[1].uri.hash # ""

\* C4 (as stated): when exactly one source descriptor was submitted in total,
\* with one uri or several, every single-reference resolution is registered
\* under the source's declared name.
C4_OneDescriptorDeclaredName ==
    (Len(submitted) = 1 /\ lastResolution.kind = "single") =>
        lastResolution.registered[1].name = lastResolution.given

\* C4 (amended): when exactly one [uri, source] pair was accumulated in total,
\* every single-reference resolution is registered under the declared name of
\* the source, and it is the only top level.
C4_OnePairDeclaredName ==
    (Len(schemaSources) = 1 /\ lastResolution.kind = "single") =>
        /\ lastResolution.registered[1].name = schemaSources[1].name
        /\ topLevels = <<[name |-> schemaSources[1].name,
                          ref |-> RefOf(schemaSources[1].uri, "")]>>

\* C4's case: one pair, resolved to a single reference that the resolver
\* named otherwise than the source.
C4_Witness ==
    /\ Len(schemaSources) = 1
    /\ lastResolution.kind = "single"
    /\ lastResolution.resolved[1] # schemaSources[1].name

\* Every submitted source has a schema text or a uri: none is one that C7
\* wants rejected.
EverySourceHasTextOrUri ==
    \A i \in 1..Len(submitted) :
        submitted[i].schema # Undefined \/ ~submitted[i].hasUris \/ submitted[i].uris > 0

\* C5: once two or more source descriptors have been submitted
\* (empty uris lists included), a single-reference resolution is registered
\* under the resolver-assigned name.  Stated for the sessions all of whose
\* sources have a schema text or a uri.
C5_TwoDescriptorsResolverName ==
    (/\ lastResolution.kind = "single"
     /\ lastResolution.sources >= 2
     /\ EverySourceHasTextOrUri) =>
        lastResolution.registered[1].name = lastResolution.resolved[1]

\* finishAddingInputs has run up to its first await or its early end, and
\* nothing was called since.
FinishJustBegan ==
    /\ schemaResult.op = "finishAddingInputs"
    /\ \/ finish.len = 0
       \/ finish.pc = "resolving" /\ finish.idx = 1

C7_MissingSchemaSourceRejected ==
    (/\ schemaResult.op = "addSource"
     /\ schemaResult.arg.schema = Undefined
     /\ (~schemaResult.arg.hasUris \/ schemaResult.arg.uris = <<>>)) =>
        /\ schemaResult.status = "panic"
        /\ schemaResult.value = "MissingSchemaSource"

SubmittedTexts == {submitted[i].schema : i \in 1..Len(submitted)}

\* C8: singleStringSchemaSource returns t exactly when every source
\* submitted so far supplied literal text and all the texts equal t; otherwise,
\* and when no source was submitted, it returns undefined.  Stated for the
\* sessions all of whose sources have a schema text or a uri.
C8_SingleStringOverSubmittedSources ==
    (schemaResult.op = "singleStringSchemaSource" /\ EverySourceHasTextOrUri) =>
        schemaResult.value =
            (IF /\ submitted # <<>>
                /\ SubmittedTexts \subseteq SchemaTexts
                /\ Cardinality(SubmittedTexts) = 1
             THEN CHOOSE t \in SubmittedTexts : TRUE
             ELSE Undefined)

\* The pairs accumulated for sources that supplied a schema (a string or a
\* stream), and the documents they name: their uris without the fragment.
PairsWithText == {i \in 1..Len(schemaSources) : schemaSources[i].schema # Undefined}
DocumentsWithText == {schemaSources[i].uri.path : i \in PairsWithText}

\* C12: the cache of literal texts has one entry for each distinct
\* fragment-stripped normalized uri under which a text was supplied, keyed by
\* it, and the entry holds the text supplied last under it.
C12_CacheKeyedByStrippedURI ==
    /\ DOMAIN schemaInputs = DocumentsWithText
    /\ Cardinality(DOMAIN schemaInputs) = Cardinality(DocumentsWithText)
    /\ \A address \in DOMAIN schemaInputs :
          LET last == CHOOSE i \in PairsWithText :
                          /\ schemaSources[i].uri.path = address
                          /\ \A j \in PairsWithText :
                                schemaSources[j].uri.path = address => j <= i
          IN  schemaInputs[address] = schemaSources[last].schema

\* C12's case: two sources supplied the same text under u#a and under u#b, and
\* the cache has the one entry u.
C12_Witness ==
    /\ Len(submitted) = 2
    /\ DOMAIN schemaInputs = {"u"}
    /\ \E i, j \in PairsWithText :
          /\ schemaSources[i].uri = Uri("u", "a")
          /\ schemaSources[j].uri = Uri("u", "b")
          /\ schemaSources[i].schema = schemaSources[j].schema
          /\ schemaSources[i].schema \in SchemaTexts

\* finishAddingInputs has resolved nothing: it was not called (states Empty
\* and Accumulating), or it returned at once for want of pairs.
NothingResolvedYet ==
    /\ lastResolution = NoResolution
    /\ \/ finish.pc = "idle"
       \/ finish.pc = "returned" /\ finish.len = 0

\* C14: addTypes called before finishAddingInputs has resolved anything, with
\* or without a store given, does not fail: it hands the name->Ref map as it
\* is, empty if need be, to addTypesInSchema.
C14_AddTypesBeforeResolvedReturns ==
    (schemaResult.op = "addTypes" /\ NothingResolvedYet) =>
        /\ schemaResult.status = "return"
        /\ schemaResult.value = topLevels

\* C16: the synthetic path of addSource comes from a counter of the session
\* that advances by one per call: the n-th addSource call computes the path of
\* counter value n, whatever sources came before.
C16_SyntheticPathCountsCalls ==
    schemaResult.op = "addSource" => schemaResult.uriPath = DashNumber(schemaCalls)

\* The number of pairs a submitted source gave: one for each of its uris, or
\* one if it has no uris field.
PairsOf(source) == IF source.hasUris THEN source.uris ELSE 1

RECURSIVE PairsUpTo(_)
PairsUpTo(k) == IF k = 0 THEN 0 ELSE PairsUpTo(k - 1) + PairsOf(submitted[k])

\* The submitted source that pair i comes from, if the pairs are in
\* submission order.
SourceOfPair(i) ==
    CHOOSE k \in 1..Len(submitted) : PairsUpTo(k - 1) < i /\ i <= PairsUpTo(k)

PairsInSubmissionOrder ==
    /\ Len(schemaSources) = PairsUpTo(Len(submitted))
    /\ \A i \in 1..Len(schemaSources) :
          /\ schemaSources[i].name = submitted[SourceOfPair(i)].name
          /\ schemaSources[i].schema = submitted[SourceOfPair(i)].schema

\* The last resolution registered is that of pair i.
LastResolvedIs(i) ==
    /\ lastResolution.idx = i
    /\ i > 0 =>
          /\ lastResolution.given = schemaSources[i].name
          /\ \A e \in 1..Len(lastResolution.registered) :
                lastResolution.registered[e].ref.uri = schemaSources[i].uri

\* C17: finishAddingInputs resolves the accumulated pairs one at a time in
\* submission order: while the resolution of pair i is awaited, the pairs
\* before it, and only they, have been resolved and registered, the last of
\* them pair i - 1; when it has returned, every pair has been, the last one last.
C17_ResolvesOneAtATimeInOrder ==
    /\ PairsInSubmissionOrder
    /\ finish.pc = "resolving" =>
          /\ finish.idx \in 1..finish.len
          /\ finish.len = Len(schemaSources)
          /\ LastResolvedIs(finish.idx - 1)
    /\ (finish.pc = "returned" /\ finish.len > 0) =>
          /\ finish.idx = finish.len
          /\ LastResolvedIs(finish.len)
    /\ (finish.pc = "rejected" /\ finish.len > 0) => LastResolvedIs(finish.idx - 1)
    /\ finish.pc = "idle" => lastResolution = NoResolution

\* C17's case: two sources with different names were submitted, the pair of
\* the first is resolved and the resolution of the pair of the second is awaited.
C17_Witness ==
    /\ Len(submitted) = 2
    /\ submitted[1].name # submitted[2].name
    /\ finish.pc = "resolving"
    /\ finish.idx = 2
    /\ lastResolution.idx = 1
    /\ topLevels # <<>>

\* The registrations (addTopLevel calls) made so far, in order.
Registrations == lastResolution.log

\* C18: registering a name again is last-write-wins and no error: the map has
\* one entry for each name registered, its Ref is that of the last registration
\* of the name, and the top levels are at most as many as the registrations.
C18_LastRegistrationWins ==
    /\ \A i, j \in 1..Len(topLevels) : topLevels[i].name = topLevels[j].name => i = j
    /\ {topLevels[i].name : i \in 1..Len(topLevels)} =
          {Registrations[k].name : k \in 1..Len(Registrations)}
    /\ \A i \in 1..Len(topLevels) :
          \E k \in 1..Len(Registrations) :
              /\ Registrations[k] = topLevels[i]
              /\ \A l \in (k + 1)..Len(Registrations) :
                    Registrations[l].name # topLevels[i].name
    /\ Len(topLevels) <= Len(Registrations)
    /\ (finish.pc = "returned" /\ finish.len > 0) => Len(Registrations) >= finish.len

\* C18's case: finishAddingInputs returned after two pairs resolved to the same
\* name with different Refs, and the one top level has the Ref of the second.
C18_Witness ==
    /\ finish.pc = "returned"
    /\ Len(Registrations) = 2
    /\ Registrations[1].name = Registrations[2].name
    /\ Registrations[1].ref # Registrations[2].ref
    /\ topLevels = <<Registrations[2]>>

\* A step is an addSource call of the JSONSchemaInput.
IsAddSourceStep == schemaCalls' = schemaCalls + 1

\* C19: needIR of the JSONSchemaInput is false at first, becomes true at the
\* first addSource whose source has not isConverted true, and is never false
\* again, whatever is called; needIR of InputData is true exactly when a
\* registered processor has needIR true.
C19_NeedIRSticky ==
    /\ [](schemaCalls = 0 => ~needIR)
    /\ [](schemaResult.op = "needIR" => schemaResult.value = needIR)
    /\ [](idResult.op = "needIR" =>
            (idResult.value = TRUE <=> \E i \in 1..Len(inputs) : inputs[i].needIR = TRUE))
    /\ [][/\ needIR => needIR'
          /\ IsAddSourceStep =>
                (needIR' <=> (needIR \/ schemaResult'.arg.isConverted # "true"))
          /\ ~IsAddSourceStep => needIR' = needIR]_vars

\* C19's case: needIR stayed true through an addSource of a converted source,
\* finishAddingInputs and addTypes; and InputData, with a processor that needs
\* IR and one that does not, answered true.
C19_Witness ==
    /\ needIR
    /\ schemaCalls = 2
    /\ submitted # <<>>
    /\ finish.pc = "returned"
    /\ schemaResult.op = "addTypes"
    /\ idResult.op = "needIR"
    /\ idResult.value = TRUE
    /\ \E i, j \in 1..Len(inputs) : inputs[i].needIR /\ ~inputs[j].needIR

\* C20: an addSource call that fails with MissingSchemaSource leaves the
\* JSONSchemaInput as it was: needIR, the cache of literal texts and the list
\* of pairs are unchanged.
C20_FailedAddSourceChangesNothing ==
    [][(IsAddSourceStep /\ schemaResult'.status = "panic"
                        /\ schemaResult'.value = "MissingSchemaSource") =>
          /\ needIR' = needIR
          /\ schemaInputs' = schemaInputs
          /\ schemaSources' = schemaSources]_vars

\* ------------------------------------------------- claims on JSONInput

\* The samples submitted for a name, in call order and then in the order
\* within each call.
RECURSIVE SubmittedFor(_, _)
SubmittedFor(cs, n) ==
    IF cs = <<>> THEN <<>>
    ELSE SubmittedFor(Front(cs), n) \o (IF Last(cs).name = n THEN Last(cs).samples ELSE <<>>)

\* The samples the top level of a name holds; none if there is no top level.
SamplesOf(n) ==
    IF GetTopLevel(jsonTopLevels, n) = 0 THEN <<>>
    ELSE jsonTopLevels[GetTopLevel(jsonTopLevels, n)].samples

\* The addSource calls for the name did not overlap and all have ended.
CallsInSequenceFor(n) ==
    /\ n \notin jsonOverlap
    /\ \A c \in 1..Len(jsonCalls) : jsonCalls[c].name = n => jsonCalls[c].state # "reading"

HoldsWhatWasSubmitted(n) ==
    LET submittedSamples == SubmittedFor(jsonCalls, n) IN
    /\ Len(SamplesOf(n)) = Len(submittedSamples)
    /\ \A i \in 1..Len(submittedSamples) : SamplesOf(n)[i] = ReadFromStream(submittedSamples[i])

DescriptionIn(map, n) ==
    IF GetTopLevel(map, n) = 0 THEN Undefined
    ELSE map[GetTopLevel(map, n)].description

SamplesIn(map, n) ==
    IF GetTopLevel(map, n) = 0 THEN <<>>
    ELSE map[GetTopLevel(map, n)].samples

\* The values of the samples of a call that precede its sample idx.
ParsedBefore(call) == [i \in 1..(call.idx - 1) |-> ReadFromStream(call.samples[i])]

\* The call ended in a parse failure, ran with no other call in flight and
\* no call was made since: the state is the one the failure left.
FailedAlone(c) ==
    /\ jsonCalls[c].state = "MiscJSONParseError"
    /\ jsonCalls[c].alone
    /\ c = Len(jsonCalls)

\* What C11 says of samples: those appended before the call are still there, in
\* their order; of the call's own, those before the failing one were appended and
\* none after it; the other names' top levels are as they were.
FailureKeepsSamples(c) ==
    LET call == jsonCalls[c] IN
    /\ \A n \in Names : IsPrefix(SamplesIn(call.before, n), SamplesOf(n))
    /\ FailedAlone(c) =>
          /\ SamplesOf(call.name) = SamplesIn(call.before, call.name) \o ParsedBefore(call)
          /\ \A n \in Names \ {call.name} :
                /\ SamplesOf(n) = SamplesIn(call.before, n)
                /\ DescriptionIn(jsonTopLevels, n) = DescriptionIn(call.before, n)

\* C11 (as stated): a parse failure aborts only its call: the samples appended
\* by earlier calls stay, in order, none of the call's samples after the failing
\* one is appended, and the description that earlier calls set is unchanged.
C11_FailureLeavesEarlierCallsAlone ==
    \A c \in 1..Len(jsonCalls) :
        jsonCalls[c].state = "MiscJSONParseError" =>
            /\ FailureKeepsSamples(c)
            /\ FailedAlone(c) =>
                  DescriptionIn(jsonTopLevels, jsonCalls[c].name) =
                      DescriptionIn(jsonCalls[c].before, jsonCalls[c].name)

\* C11 (amended): the same of the samples; the description is unchanged unless
\* the call carries one and a sample of the call was parsed before the failing
\* one, and then it is the call's.
C11_FailureLeavesEarlierSamplesAlone ==
    \A c \in 1..Len(jsonCalls) :
        jsonCalls[c].state = "MiscJSONParseError" =>
            /\ FailureKeepsSamples(c)
            /\ FailedAlone(c) =>
                  DescriptionIn(jsonTopLevels, jsonCalls[c].name) =
                      (IF jsonCalls[c].idx > 1 /\ jsonCalls[c].description # Undefined
                       THEN jsonCalls[c].description
                       ELSE DescriptionIn(jsonCalls[c].before, jsonCalls[c].name))

\* C11's case: a call failed at its second sample, after an earlier call had
\* left a sample and a description for the same name and for the other name.
C11_Witness ==
    \E c \in 1..Len(jsonCalls) :
        /\ FailedAlone(c)
        /\ jsonCalls[c].idx = 2
        /\ jsonCalls[c].description # Undefined
        /\ SamplesIn(jsonCalls[c].before, jsonCalls[c].name) # <<>>
        /\ DescriptionIn(jsonCalls[c].before, jsonCalls[c].name) # Undefined
        /\ DescriptionIn(jsonCalls[c].before, jsonCalls[c].name) # jsonCalls[c].description

\* C15: in every state of a JSONInput, the suspension points of its addSource
\* calls included, every top level that exists has at least one sample; a name
\* none of whose samples was parsed has no top level.
C15_TopLevelNeverEmpty ==
    /\ \A i \in 1..Len(jsonTopLevels) : Len(jsonTopLevels[i].samples) >= 1
    /\ \A n \in Names :
          (\A c \in 1..Len(jsonCalls) :
              jsonCalls[c].name = n =>
                  (jsonCalls[c].idx = 1 /\ jsonCalls[c].state # "returned")
                  \/ jsonCalls[c].samples = <<>>)
          => GetTopLevel(jsonTopLevels, n) = 0

\* C15's case: a call with a description is suspended before its second
\* sample, after a call for the other name failed at its first sample.
C15_Witness ==
    \E c1, c2 \in 1..Len(jsonCalls) :
        /\ jsonCalls[c1].state = "MiscJSONParseError"
        /\ jsonCalls[c1].idx = 1
        /\ jsonCalls[c2].state = "reading"
        /\ jsonCalls[c2].idx = 2
        /\ jsonCalls[c2].description # Undefined
        /\ jsonCalls[c2].name # jsonCalls[c1].name
        /\ Len(jsonTopLevels) = 1

====
